---- MODULE Spec2Model ----
(***************************************************************************)
(* Model of phase1-verifier/src/coordinator_requests.rs: the five          *)
(* authenticated coordinator requests of the Verifier (lock_chunk,         *)
(* verify_contribution, download_response_file, download_challenge_file,   *)
(* upload_next_challenge_locator_file).                                    *)
(*                                                                         *)
(* Strings are sequences of one-character strings, so that format!,        *)
(* str::replace and prefix removal are computed character by character.    *)
(* The invocation in flight has its position in pc, and every await point *)
(* of the async fn is a separate step.  Spec runs one invocation at a      *)
(* time, ConcSpec runs the two downloads together (the second one in       *)
(* task_b), DriverSpec runs one chunk iteration over the operations.       *)
(***************************************************************************)
EXTENDS Integers, Sequences, FiniteSets, TLC

\* ------------------------------------------------------------------ bounds
\* Longest locator argument a caller passes.
MaxLen == 4

\* Characters a locator is made of.
Alphabet == {".", "/", "c"}

RECURSIVE StringsUpTo(_)
StringsUpTo(n) ==
    IF n = 0 THEN {<< >>}
    ELSE LET shorter == StringsUpTo(n - 1)
         IN  shorter \cup {Append(s, ch) : s \in {t \in shorter : Len(t) = n - 1}, ch \in Alphabet}

Locators == StringsUpTo(MaxLen)

\* Bodies a caller uploads.
FileBuffers == {<<1>>, <<2, 3>>}

\* Stored representations of the view key; only some of them parse.
ValidViewKeys == {"AViewKey1", "AViewKey2"}
StoredViewKeys == ValidViewKeys \cup {"not-a-view-key"}

\* Configured coordinator URLs.
CoordinatorUrls ==
    { <<"h", "t", "t", "p", ":", "/", "/", "c", "1">>,
      <<"h", "t", "t", "p", "s", ":", "/", "/", "c", "2", ":", "9">> }

\* HTTP statuses the coordinator answers with.
Statuses == {199, 200, 204, 299, 300, 404, 500}

Ops == {"lock_chunk", "verify_contribution", "download_response_file",
        "download_challenge_file", "upload_next_challenge_locator_file"}

LocatorOps == Ops \ {"lock_chunk"}

Nil == [nil |-> TRUE]

\* ------------------------------------------------------------ pure helpers
\* str::replace(from, to): left to right, non-overlapping matches, one pass.
RECURSIVE replace(_, _, _)
replace(s, from, to) ==
    IF Len(s) < Len(from) THEN s
    ELSE IF SubSeq(s, 1, Len(from)) = from
         THEN to \o replace(SubSeq(s, Len(from) + 1, Len(s)), from, to)
         ELSE <<s[1]>> \o replace(Tail(s), from, to)

DotSlash == <<".", "/">>

ApiPrefix == <<"/", "a", "p", "i">>

LockPath ==
    <<"/", "c", "o", "o", "r", "d", "i", "n", "a", "t", "o", "r", "/",
      "v", "e", "r", "i", "f", "i", "e", "r", "/", "l", "o", "c", "k">>

VerifyPrefix ==
    <<"/", "c", "o", "o", "r", "d", "i", "n", "a", "t", "o", "r", "/",
      "v", "e", "r", "i", "f", "y", "/">>

LocatorPrefix ==
    <<"/", "c", "o", "o", "r", "d", "i", "n", "a", "t", "o", "r", "/",
      "l", "o", "c", "a", "t", "o", "r", "/">>

VerificationPrefix ==
    <<"/", "c", "o", "o", "r", "d", "i", "n", "a", "t", "o", "r", "/",
      "v", "e", "r", "i", "f", "i", "c", "a", "t", "i", "o", "n", "/">>

\* The path template of each operation, before the locator is appended.
PathTemplate(o) ==
    CASE o = "lock_chunk"                         -> LockPath
      [] o = "verify_contribution"                -> VerifyPrefix
      [] o = "download_response_file"             -> LocatorPrefix
      [] o = "download_challenge_file"            -> LocatorPrefix
      [] o = "upload_next_challenge_locator_file" -> VerificationPrefix

\* let path = format!("<template>{}", locator);  lock_chunk has no locator.
PathOf(o, loc) ==
    IF o = "lock_chunk" THEN LockPath ELSE PathTemplate(o) \o loc

\* Every operation signs as a POST.
MethodOf_post(o) == "post"

\* let method = "post" | "get";
MethodOf(o) ==
    CASE o = "lock_chunk"                         -> "post"
      [] o = "verify_contribution"                -> "post"
      [] o = "download_response_file"             -> "get"
      [] o = "download_challenge_file"            -> "get"
      [] o = "upload_next_challenge_locator_file" -> "post"

\* Client::new().post(..) | .get(..): the method of the request built.
ClientMethod(o) ==
    CASE o = "lock_chunk"                         -> "POST"
      [] o = "verify_contribution"                -> "POST"
      [] o = "download_response_file"             -> "GET"
      [] o = "download_challenge_file"            -> "GET"
      [] o = "upload_next_challenge_locator_file" -> "POST"

\* let signature_path = format!("/api{}", path.replace("./", ""));
\* lock_chunk formats the path as it is.
SignaturePathOf(o, p) ==
    IF o = "lock_chunk" THEN ApiPrefix \o p
    ELSE ApiPrefix \o replace(p, DotSlash, << >>)

\* &format!("{}{}", &coordinator_api_url, &path)
RequestUrl(base, p) == base \o p

\* ViewKey::from_str(&self.view_key)
ViewKey_from_str(stored) ==
    IF stored \in ValidViewKeys
    THEN [ok |-> TRUE, val |-> [view_key |-> stored]]
    ELSE [ok |-> FALSE, err |-> [variant |-> "InvalidKey"]]

\* authenticate(&view_key, &method, &signature_path): the signature is a
\* value of the key, the method and the path.
authenticate(vk, m, sp) == [signer |-> vk.view_key, method |-> m, path |-> sp]

\* authentication.to_string()
to_string(sig) == <<"signature", sig.signer, sig.method, sig.path>>

\* response.status().is_success()
is_success(status) == 200 <= status /\ status <= 299

\* Every operation attaches the file buffer and the Content-Type.
BuildRequest_withBody(o, base, p, auth, file_bytes) ==
    [ method  |-> ClientMethod(o),
      url     |-> RequestUrl(base, p),
      headers |-> [Authorization |-> to_string(auth),
                   ContentType   |-> "application/octet-stream"],
      body    |-> [present |-> TRUE, bytes |-> file_bytes] ]

\* The key that signed is also put in the query of the URL.
BuildRequest_keyInUrl(o, base, p, auth, file_bytes) ==
    [ method  |-> ClientMethod(o),
      url     |-> RequestUrl(base, p) \o <<"?", auth.signer>>,
      headers |-> IF o = "upload_next_challenge_locator_file"
                  THEN [Authorization |-> to_string(auth),
                        ContentType   |-> "application/octet-stream"]
                  ELSE [Authorization |-> to_string(auth)],
      body    |-> IF o = "upload_next_challenge_locator_file"
                  THEN [present |-> TRUE, bytes |-> file_bytes]
                  ELSE [present |-> FALSE] ]

\* The request handed to the HTTP client.
BuildRequest(o, base, p, auth, file_bytes) ==
    [ method  |-> ClientMethod(o),
      url     |-> RequestUrl(base, p),
      headers |-> IF o = "upload_next_challenge_locator_file"
                  THEN [Authorization |-> to_string(auth),
                        ContentType   |-> "application/octet-stream"]
                  ELSE [Authorization |-> to_string(auth)],
      body    |-> IF o = "upload_next_challenge_locator_file"
                  THEN [present |-> TRUE, bytes |-> file_bytes]
                  ELSE [present |-> FALSE] ]

\* The status error carries the locator as it was signed.
StatusError_canonical(o, loc) ==
    IF o = "lock_chunk" THEN [variant |-> "FailedLock"]
    ELSE [variant |-> CASE o = "verify_contribution"     -> "FailedVerification"
                        [] o = "download_response_file"  -> "FailedResponseDownload"
                        [] o = "download_challenge_file" -> "FailedChallengeDownload"
                        [] OTHER                         -> "FailedChallengeUpload",
          locator |-> replace(loc, DotSlash, << >>)]

\* The error returned on a non-success status.
StatusError(o, loc) ==
    CASE o = "lock_chunk"                         -> [variant |-> "FailedLock"]
      [] o = "verify_contribution"                -> [variant |-> "FailedVerification", locator |-> loc]
      [] o = "download_response_file"             -> [variant |-> "FailedResponseDownload", locator |-> loc]
      [] o = "download_challenge_file"            -> [variant |-> "FailedChallengeDownload", locator |-> loc]
      [] o = "upload_next_challenge_locator_file" -> [variant |-> "FailedChallengeUpload", locator |-> loc]

\* The two strings of FailedRequest in the other order.
FailedRequest_swapped(p, base) == [variant |-> "FailedRequest", path |-> base, base_url |-> p]

\* VerifierError::FailedRequest(path.to_string(), coordinator_api_url.to_string())
FailedRequest(p, base) == [variant |-> "FailedRequest", path |-> p, base_url |-> base]

Ok(v) == [ok |-> TRUE, val |-> v]

Err(e) == [ok |-> FALSE, err |-> e]


\* ------------------------------------------------------- response bodies
\* Bodies the coordinator answers with, as bytes on the wire.
EmptyBody == << >>

GarbageBody == <<255>>

LockJsonBody == <<123, 76, 125>>

PartialLockJsonBody == <<123, 80, 125>>

AckJsonBody == <<123, 65, 125>>

ResponseBodies == {EmptyBody, GarbageBody, LockJsonBody, PartialLockJsonBody, AckJsonBody}

\* The fields a LockResponse is decoded from.
LockResponseFields == {"chunk_id", "challenge_locator", "response_locator"}

\* response.json(): the JSON value the body parses to, or a decode error.
json(body) ==
    CASE body = LockJsonBody ->
            Ok([chunk_id          |-> <<"3">>,
                challenge_locator |-> <<".", "/", "c">>,
                response_locator  |-> <<".", "/", "c", "c">>])
      [] body = PartialLockJsonBody ->
            Ok([chunk_id |-> <<"3">>, challenge_locator |-> <<".", "/", "c">>])
      [] body = AckJsonBody ->
            Ok([status |-> <<"o", "k">>])
      [] OTHER ->
            Err([variant |-> "Reqwest", kind |-> "decode"])

\* serde_json::from_value::<LockResponse>(json_response)
from_value(v) ==
    IF LockResponseFields \subseteq DOMAIN v
    THEN Ok([f \in LockResponseFields |-> v[f]])
    ELSE Err([variant |-> "SerdeJson"])

\* response.text(): the body decoded as UTF-8, invalid bytes replaced.
text(body) == [i \in 1..Len(body) |-> IF body[i] < 128 THEN body[i] ELSE 65533]

\* response.bytes()?.to_vec()
bytes(body) == body

\* The downloads decode the file as text.
DecodeBody_downloadsAsText(o, body) ==
    CASE o = "lock_chunk" ->
            LET json_response == json(body)
            IN  IF ~json_response.ok THEN json_response
                ELSE from_value(json_response.val)
      [] OTHER -> Ok(text(body))

\* A lock body that does not decode is reported as a failed lock.
DecodeBody_coerced(o, body) ==
    CASE o = "lock_chunk" ->
            LET json_response == json(body)
            IN  IF ~json_response.ok THEN Err([variant |-> "FailedLock"])
                ELSE IF ~from_value(json_response.val).ok THEN Err([variant |-> "FailedLock"])
                ELSE from_value(json_response.val)
      [] o \in {"verify_contribution", "upload_next_challenge_locator_file"} -> Ok(text(body))
      [] OTHER -> Ok(bytes(body))

\* The value each operation returns once the body has been read in full.
DecodeBody(o, body) ==
    CASE o = "lock_chunk" ->
            LET json_response == json(body)
            IN  IF ~json_response.ok THEN json_response
                ELSE from_value(json_response.val)
      [] o = "verify_contribution"                -> Ok(text(body))
      [] o = "download_response_file"             -> Ok(bytes(body))
      [] o = "download_challenge_file"            -> Ok(bytes(body))
      [] o = "upload_next_challenge_locator_file" -> Ok(text(body))

\* The error the `?` on response.json() / bytes() / text() propagates when
\* reading the body fails in the transport.
BodyReadError == [variant |-> "Reqwest", kind |-> "body"]

\* ------------------------------------------------------------------ state
VARIABLES
    view_key,             \* Verifier.view_key, the stored key string
    coordinator_api_url,  \* Verifier.coordinator_api_url
    pc,                   \* position of the invocation in flight
    op,                   \* the operation invoked
    locator,              \* its locator argument
    file_bytes,           \* next_challenge_file_bytes of an upload
    path,                 \* let path
    parsed_key,           \* let view_key
    signature_path,       \* let signature_path
    authentication,       \* let authentication
    request,              \* the request sent, Nil before
    send_outcome,         \* what send().await returned, Nil before
    body_state,           \* "unread", "failed" or "read"
    result,               \* the value returned, Nil before
    signatures_computed,  \* signatures computed in this invocation
    requests_sent,        \* requests sent in this invocation
    task_b,               \* a second invocation in flight on the same Verifier
    driver                \* the chunk iteration that issues the invocations

vars == <<view_key, coordinator_api_url, pc, op, locator, file_bytes, path,
          parsed_key, signature_path, authentication, request, send_outcome,
          body_state, result, signatures_computed, requests_sent, task_b, driver>>

verifier == <<view_key, coordinator_api_url>>

NoInvocation ==
    /\ op = "none"
    /\ locator = << >>
    /\ file_bytes = << >>
    /\ path = << >>
    /\ parsed_key = Nil
    /\ signature_path = << >>
    /\ authentication = Nil
    /\ request = Nil
    /\ send_outcome = Nil
    /\ body_state = "unread"
    /\ result = Nil
    /\ signatures_computed = 0
    /\ requests_sent = 0

\* An invocation as a record: the locals of one call of an async fn.
NewTask ==
    [ pc |-> "idle", op |-> "none", locator |-> << >>, file_bytes |-> << >>,
      path |-> << >>, parsed_key |-> Nil, signature_path |-> << >>,
      authentication |-> Nil, request |-> Nil, send_outcome |-> Nil,
      body_state |-> "unread", result |-> Nil ]

\* The chunk iteration before its first request.
DriverIdle ==
    [ state |-> "Idle", lock |-> Nil, challenge |-> Nil, response |-> Nil,
      verdict |-> "none", next_locator |-> << >>, next_bytes |-> << >>,
      uploaded_locator |-> << >>, error |-> Nil, issued |-> << >>,
      completed |-> << >> ]

Init ==
    /\ view_key \in StoredViewKeys
    /\ coordinator_api_url \in CoordinatorUrls
    /\ pc = "idle"
    /\ NoInvocation
    /\ task_b = NewTask
    /\ driver = DriverIdle

\* The entry of each async fn: the locals set before the key is parsed.
Call(o, loc, buf) ==
    /\ pc = "idle"
    /\ op' = o
    /\ locator' = loc
    /\ file_bytes' = buf
    /\ path' = PathOf(o, loc)
    /\ pc' = "parse_key"
    /\ UNCHANGED <<verifier, parsed_key, signature_path, authentication, request,
                   send_outcome, body_state, result, signatures_computed,
                   requests_sent>>

\* A call made by an arbitrary caller.
Enter(o, loc, buf) == Call(o, loc, buf) /\ UNCHANGED <<task_b, driver>>

lock_chunk == Enter("lock_chunk", << >>, << >>)

verify_contribution ==
    /\ pc = "idle"
    /\ \E verified_locator \in Locators :
           Enter("verify_contribution", verified_locator, << >>)

download_response_file ==
    /\ pc = "idle"
    /\ \E response_locator \in Locators :
           Enter("download_response_file", response_locator, << >>)

download_challenge_file ==
    /\ pc = "idle"
    /\ \E challenge_locator \in Locators :
           Enter("download_challenge_file", challenge_locator, << >>)

upload_next_challenge_locator_file ==
    /\ pc = "idle"
    /\ \E next_challenge_locator \in Locators, next_challenge_file_bytes \in FileBuffers :
           Enter("upload_next_challenge_locator_file", next_challenge_locator,
                 next_challenge_file_bytes)

\* The stored key is used without the parse being checked.
ParseViewKey_unchecked ==
    /\ pc = "parse_key"
    /\ parsed_key' = [view_key |-> view_key]
    /\ pc' = "sign"
    /\ UNCHANGED <<verifier, task_b, driver, op, locator, file_bytes, path, signature_path,
                   authentication, request, send_outcome, body_state, result,
                   signatures_computed, requests_sent>>

\* let view_key = ViewKey::from_str(&self.view_key)?;
ParseViewKey ==
    /\ pc = "parse_key"
    /\ LET parsed == ViewKey_from_str(view_key)
       IN  IF parsed.ok
           THEN /\ parsed_key' = parsed.val
                /\ pc' = "sign"
                /\ UNCHANGED result
           ELSE /\ result' = parsed
                /\ pc' = "done"
                /\ UNCHANGED parsed_key
    /\ UNCHANGED <<verifier, task_b, driver, op, locator, file_bytes, path, signature_path,
                   authentication, request, send_outcome, body_state,
                   signatures_computed, requests_sent>>

\* let signature_path = ..; let authentication = authenticate(..)?;
Authenticate ==
    /\ pc = "sign"
    /\ signature_path' = SignaturePathOf(op, path)
    /\ authentication' = authenticate(parsed_key, MethodOf(op), signature_path')
    /\ signatures_computed' = signatures_computed + 1
    /\ pc' = "send"
    /\ UNCHANGED <<verifier, task_b, driver, op, locator, file_bytes, path, parsed_key, request,
                   send_outcome, body_state, result, requests_sent>>

\* authenticate(..)? fails: the error is returned before anything is sent.
AuthenticateFails ==
    /\ pc = "sign"
    /\ signature_path' = SignaturePathOf(op, path)
    /\ result' = Err([variant |-> "SignatureError"])
    /\ pc' = "done"
    /\ UNCHANGED <<verifier, task_b, driver, op, locator, file_bytes, path, parsed_key,
                   authentication, request, send_outcome, body_state,
                   signatures_computed, requests_sent>>

\* Client::new().post(url).header(..).send()
Send ==
    /\ pc = "send"
    /\ request' = BuildRequest(op, coordinator_api_url, path, authentication, file_bytes)
    /\ requests_sent' = requests_sent + 1
    /\ pc' = "await_send"
    /\ UNCHANGED <<verifier, task_b, driver, op, locator, file_bytes, path, parsed_key,
                   signature_path, authentication, send_outcome, body_state,
                   result, signatures_computed>>

\* A failed send is tried again.
SendFails_retry ==
    /\ pc = "await_send"
    /\ send_outcome' = [ok |-> FALSE]
    /\ pc' = "send"
    /\ UNCHANGED <<verifier, task_b, driver, op, locator, file_bytes, path, parsed_key,
                   signature_path, authentication, request, body_state, result,
                   signatures_computed, requests_sent>>

\* .await returned Err(_): no response was obtained.
SendFails ==
    /\ pc = "await_send"
    /\ send_outcome' = [ok |-> FALSE]
    /\ result' = Err(FailedRequest(path, coordinator_api_url))
    /\ pc' = "done"
    /\ UNCHANGED <<verifier, task_b, driver, op, locator, file_bytes, path, parsed_key,
                   signature_path, authentication, request, body_state,
                   signatures_computed, requests_sent>>

\* .await returned Ok(response): the status decides.
SendResponds ==
    /\ pc = "await_send"
    /\ \E status \in Statuses, body \in ResponseBodies :
        /\ send_outcome' = [ok |-> TRUE, status |-> status, body |-> body]
        /\ IF ~is_success(status)
           THEN /\ result' = Err(StatusError(op, locator))
                /\ pc' = "done"
           ELSE /\ pc' = "await_body"
                /\ UNCHANGED result
    /\ UNCHANGED <<verifier, task_b, driver, op, locator, file_bytes, path, parsed_key,
                   signature_path, authentication, request, body_state,
                   signatures_computed, requests_sent>>

\* response.json() / bytes() / text() .await? fails while the body is read.
BodyReadFails ==
    /\ pc = "await_body"
    /\ body_state' = "failed"
    /\ result' = Err(BodyReadError)
    /\ pc' = "done"
    /\ UNCHANGED <<verifier, task_b, driver, op, locator, file_bytes, path, parsed_key,
                   signature_path, authentication, request, send_outcome,
                   signatures_computed, requests_sent>>

\* The body was read in full and is decoded as the operation expects.
BodyReadCompletes ==
    /\ pc = "await_body"
    /\ body_state' = "read"
    /\ result' = DecodeBody(op, send_outcome.body)
    /\ pc' = "done"
    /\ UNCHANGED <<verifier, task_b, driver, op, locator, file_bytes, path, parsed_key,
                   signature_path, authentication, request, send_outcome,
                   signatures_computed, requests_sent>>

\* The async fn has returned; its locals are dropped.
DropLocals ==
    /\ pc = "done"
    /\ pc' = "idle"
    /\ op' = "none"
    /\ locator' = << >>
    /\ file_bytes' = << >>
    /\ path' = << >>
    /\ parsed_key' = Nil
    /\ signature_path' = << >>
    /\ authentication' = Nil
    /\ request' = Nil
    /\ send_outcome' = Nil
    /\ body_state' = "unread"
    /\ result' = Nil
    /\ signatures_computed' = 0
    /\ requests_sent' = 0
    /\ UNCHANGED verifier

Return == DropLocals /\ UNCHANGED <<task_b, driver>>

\* ------------------------------------------- an invocation as a value
\* What the environment decides during one invocation: whether
\* authenticate succeeds, whether send() obtains a response, its status and
\* body, and whether the body can be read in full.
Answers ==
    [auth_ok : BOOLEAN, send_ok : BOOLEAN, status : Statuses,
     body : ResponseBodies, body_ok : BOOLEAN]

\* The locals of an async fn right after its entry.
TaskEnter(o, loc, buf) ==
    [NewTask EXCEPT !.pc = "parse_key", !.op = o, !.locator = loc,
                    !.file_bytes = buf, !.path = PathOf(o, loc)]

\* The path is kept in a buffer shared by the invocations: a step reads
\* the path of the invocation that wrote it last.
TaskStep_sharedPath(t, stored_key, base, answer) ==
    CASE t.pc = "parse_key" ->
            LET parsed == ViewKey_from_str(stored_key)
            IN  IF parsed.ok
                THEN [t EXCEPT !.parsed_key = parsed.val, !.pc = "sign"]
                ELSE [t EXCEPT !.result = parsed, !.pc = "done"]
      [] t.pc = "sign" ->
            LET sp == SignaturePathOf(t.op, path)
            IN  IF answer.auth_ok
                THEN [t EXCEPT !.signature_path = sp,
                               !.authentication = authenticate(t.parsed_key, MethodOf(t.op), sp),
                               !.pc = "send"]
                ELSE [t EXCEPT !.signature_path = sp,
                               !.result = Err([variant |-> "SignatureError"]),
                               !.pc = "done"]
      [] t.pc = "send" ->
            [t EXCEPT !.request = BuildRequest(t.op, base, path, t.authentication, t.file_bytes),
                      !.pc = "await_send"]
      [] t.pc = "await_send" ->
            IF ~answer.send_ok
            THEN [t EXCEPT !.send_outcome = [ok |-> FALSE],
                           !.result = Err(FailedRequest(path, base)),
                           !.pc = "done"]
            ELSE IF ~is_success(answer.status)
            THEN [t EXCEPT !.send_outcome = [ok |-> TRUE, status |-> answer.status, body |-> answer.body],
                           !.result = Err(StatusError(t.op, t.locator)),
                           !.pc = "done"]
            ELSE [t EXCEPT !.send_outcome = [ok |-> TRUE, status |-> answer.status, body |-> answer.body],
                           !.pc = "await_body"]
      [] t.pc = "await_body" ->
            IF ~answer.body_ok
            THEN [t EXCEPT !.body_state = "failed",
                           !.result = Err(BodyReadError),
                           !.pc = "done"]
            ELSE [t EXCEPT !.body_state = "read",
                           !.result = DecodeBody(t.op, t.send_outcome.body),
                           !.pc = "done"]
      [] OTHER -> t

\* One step of an invocation, from one await point or fallible statement to
\* the next, on the Verifier (stored_key, base) under the given answer.
TaskStep(t, stored_key, base, answer) ==
    CASE t.pc = "parse_key" ->
            LET parsed == ViewKey_from_str(stored_key)
            IN  IF parsed.ok
                THEN [t EXCEPT !.parsed_key = parsed.val, !.pc = "sign"]
                ELSE [t EXCEPT !.result = parsed, !.pc = "done"]
      [] t.pc = "sign" ->
            LET sp == SignaturePathOf(t.op, t.path)
            IN  IF answer.auth_ok
                THEN [t EXCEPT !.signature_path = sp,
                               !.authentication = authenticate(t.parsed_key, MethodOf(t.op), sp),
                               !.pc = "send"]
                ELSE [t EXCEPT !.signature_path = sp,
                               !.result = Err([variant |-> "SignatureError"]),
                               !.pc = "done"]
      [] t.pc = "send" ->
            [t EXCEPT !.request = BuildRequest(t.op, base, t.path, t.authentication, t.file_bytes),
                      !.pc = "await_send"]
      [] t.pc = "await_send" ->
            IF ~answer.send_ok
            THEN [t EXCEPT !.send_outcome = [ok |-> FALSE],
                           !.result = Err(FailedRequest(t.path, base)),
                           !.pc = "done"]
            ELSE IF ~is_success(answer.status)
            THEN [t EXCEPT !.send_outcome = [ok |-> TRUE, status |-> answer.status, body |-> answer.body],
                           !.result = Err(StatusError(t.op, t.locator)),
                           !.pc = "done"]
            ELSE [t EXCEPT !.send_outcome = [ok |-> TRUE, status |-> answer.status, body |-> answer.body],
                           !.pc = "await_body"]
      [] t.pc = "await_body" ->
            IF ~answer.body_ok
            THEN [t EXCEPT !.body_state = "failed",
                           !.result = Err(BodyReadError),
                           !.pc = "done"]
            ELSE [t EXCEPT !.body_state = "read",
                           !.result = DecodeBody(t.op, t.send_outcome.body),
                           !.pc = "done"]
      [] OTHER -> t

\* A whole invocation run on its own: entry, then every step to the return.
RunAlone(o, loc, buf, stored_key, base, answer) ==
    LET step(t) == TaskStep(t, stored_key, base, answer)
    IN  step(step(step(step(step(TaskEnter(o, loc, buf))))))

\* The answer an invocation has been given so far, read off its locals.
ObservedAnswer(t) ==
    LET responded == t.send_outcome # Nil /\ t.send_outcome.ok
    IN  [ auth_ok |-> ~(t.result # Nil /\ ~t.result.ok
                         /\ t.result.err = [variant |-> "SignatureError"]),
          send_ok |-> responded,
          status  |-> IF responded THEN t.send_outcome.status ELSE 200,
          body    |-> IF responded THEN t.send_outcome.body ELSE EmptyBody,
          body_ok |-> t.body_state # "failed" ]

\* The invocation held in the scalar variables, as a record.
TaskA ==
    [ pc |-> pc, op |-> op, locator |-> locator, file_bytes |-> file_bytes,
      path |-> path, parsed_key |-> parsed_key, signature_path |-> signature_path,
      authentication |-> authentication, request |-> request,
      send_outcome |-> send_outcome, body_state |-> body_state, result |-> result ]

\* ------------------------------------------------ concurrent downloads
\* Locators of the two downloads issued together.
ConcLocators == {<<".", "/", "c">>, <<"c", "/", "c">>}

locals == <<pc, op, locator, file_bytes, path, parsed_key, signature_path,
            authentication, request, send_outcome, body_state, result,
            signatures_computed, requests_sent>>

\* download_challenge_file is called while the other download may be in flight.
conc_download_challenge_file == \E challenge_locator \in ConcLocators :
    Enter("download_challenge_file", challenge_locator, << >>)

\* download_response_file is called as the second invocation.
conc_download_response_file ==
    /\ task_b.pc = "idle"
    /\ \E response_locator \in ConcLocators :
           task_b' = TaskEnter("download_response_file", response_locator, << >>)
    /\ UNCHANGED <<verifier, locals, driver>>

\* The answers that differ in what the step at hand reads.
AnswersAt(t) ==
    LET default == [auth_ok |-> TRUE, send_ok |-> TRUE, status |-> 200,
                    body |-> EmptyBody, body_ok |-> TRUE]
    IN  CASE t.pc = "sign" ->
                {[default EXCEPT !.auth_ok = b] : b \in BOOLEAN}
          [] t.pc = "await_send" ->
                {[default EXCEPT !.send_ok = FALSE]}
                    \cup {[default EXCEPT !.status = st, !.body = bd] :
                              st \in Statuses, bd \in ResponseBodies}
          [] t.pc = "await_body" ->
                {[default EXCEPT !.body_ok = b] : b \in BOOLEAN}
          [] OTHER -> {default}

\* The second invocation advances by one step.
StepB ==
    /\ task_b.pc \notin {"idle", "done"}
    /\ \E answer \in AnswersAt(task_b) :
           task_b' = TaskStep(task_b, view_key, coordinator_api_url, answer)
    /\ UNCHANGED <<verifier, locals, driver>>

\* Both downloads have returned; their locals are dropped.
JoinDownloads ==
    /\ task_b.pc = "done"
    /\ DropLocals
    /\ task_b' = NewTask
    /\ UNCHANGED driver

ConcNext ==
    \/ conc_download_challenge_file
    \/ conc_download_response_file
    \/ ParseViewKey
    \/ Authenticate
    \/ AuthenticateFails
    \/ Send
    \/ SendFails
    \/ SendResponds
    \/ BodyReadFails
    \/ BodyReadCompletes
    \/ StepB
    \/ JoinDownloads

ConcSpec == Init /\ [][ConcNext]_vars

\* -------------------------------------------------- chunk lifecycle driver
\* One iteration: Idle, Locking, Downloading, Verifying, Uploading,
\* Confirming, then Idle again or Failed.  The challenge download runs in
\* the scalar variables, the response download as the second invocation.
Range(seq) == {seq[i] : i \in DOMAIN seq}

Issue(d, o) == [d EXCEPT !.issued = Append(@, o)]

Complete(d, o) == [d EXCEPT !.completed = Append(@, o)]

\* A failed verification lets the iteration go on to the upload.
Reject_proceeds(d) ==
    [d EXCEPT !.state = "Uploading", !.verdict = "rejected",
              !.next_locator = <<"c", "/", "c">>, !.next_bytes = <<1>>]

\* The external verification returned false.
Reject(d) ==
    [d EXCEPT !.state = "Failed", !.verdict = "rejected",
              !.error = [variant |-> "VerificationRejected"]]

\* A failed request sends the iteration back to its start to try again.
Fail_retry(d, err) ==
    IF err.variant = "FailedRequest" THEN DriverIdle
    ELSE [d EXCEPT !.state = "Failed", !.error = err]

\* An operation returned an error: the iteration ends in Failed with it.
Fail(d, err) == [d EXCEPT !.state = "Failed", !.error = err]

\* verify_contribution is invoked with the locator as it is signed.
ConfirmLocator_canonical(d) == replace(d.next_locator, DotSlash, << >>)

\* The locator verify_contribution is invoked with.
ConfirmLocator(d) == d.next_locator

\* Idle -> Locking: invoke lock_chunk.
DriverLock ==
    /\ driver.state = "Idle"
    /\ Call("lock_chunk", << >>, << >>)
    /\ driver' = Issue([driver EXCEPT !.state = "Locking"], "lock_chunk")
    /\ UNCHANGED task_b

\* Locking -> Downloading | Failed.
DriverLocked ==
    /\ driver.state = "Locking"
    /\ DropLocals
    /\ driver' = IF result.ok
                 THEN Complete([driver EXCEPT !.state = "Downloading", !.lock = result.val],
                               "lock_chunk")
                 ELSE Fail(driver, result.err)
    /\ UNCHANGED task_b

\* Downloading: invoke download_challenge_file with the locator of the lock.
DriverDownloadChallenge ==
    /\ driver.state = "Downloading"
    /\ "download_challenge_file" \notin Range(driver.issued)
    /\ Call("download_challenge_file", driver.lock.challenge_locator, << >>)
    /\ driver' = Issue(driver, "download_challenge_file")
    /\ UNCHANGED task_b

\* Downloading: invoke download_response_file with the locator of the lock.
DriverDownloadResponse ==
    /\ driver.state = "Downloading"
    /\ "download_response_file" \notin Range(driver.issued)
    /\ task_b.pc = "idle"
    /\ task_b' = TaskEnter("download_response_file", driver.lock.response_locator, << >>)
    /\ driver' = Issue(driver, "download_response_file")
    /\ UNCHANGED <<verifier, locals>>

\* The challenge download returned.
DriverChallengeDone ==
    /\ driver.state = "Downloading"
    /\ op = "download_challenge_file"
    /\ DropLocals
    /\ driver' = IF result.ok
                 THEN Complete([driver EXCEPT !.challenge = result], "download_challenge_file")
                 ELSE Fail(driver, result.err)
    /\ UNCHANGED task_b

\* The response download returned.
DriverResponseDone ==
    /\ driver.state = "Downloading"
    /\ task_b.pc = "done"
    /\ task_b' = NewTask
    /\ driver' = IF task_b.result.ok
                 THEN Complete([driver EXCEPT !.response = task_b.result], "download_response_file")
                 ELSE Fail(driver, task_b.result.err)
    /\ UNCHANGED <<verifier, locals>>

\* Downloading -> Verifying: both buffers are handed to the verification.
DriverVerify ==
    /\ driver.state = "Downloading"
    /\ driver.challenge # Nil
    /\ driver.response # Nil
    /\ driver' = [driver EXCEPT !.state = "Verifying"]
    /\ UNCHANGED <<verifier, locals, task_b>>

\* Verifying -> Uploading: the verification returned true.
ExternalVerifyAccepts ==
    /\ driver.state = "Verifying"
    /\ \E next_challenge_locator \in ConcLocators, next_challenge_file_bytes \in FileBuffers :
           driver' = [driver EXCEPT !.state = "Uploading", !.verdict = "accepted",
                                    !.next_locator = next_challenge_locator,
                                    !.next_bytes = next_challenge_file_bytes]
    /\ UNCHANGED <<verifier, locals, task_b>>

\* Verifying -> Failed: the verification returned false.
ExternalVerifyRejects ==
    /\ driver.state = "Verifying"
    /\ driver' = Reject(driver)
    /\ UNCHANGED <<verifier, locals, task_b>>

\* Uploading: invoke upload_next_challenge_locator_file with the output.
DriverUpload ==
    /\ driver.state = "Uploading"
    /\ "upload_next_challenge_locator_file" \notin Range(driver.issued)
    /\ Call("upload_next_challenge_locator_file", driver.next_locator, driver.next_bytes)
    /\ driver' = Issue(driver, "upload_next_challenge_locator_file")
    /\ UNCHANGED task_b

\* Uploading -> Confirming | Failed.
DriverUploaded ==
    /\ driver.state = "Uploading"
    /\ DropLocals
    /\ driver' = IF result.ok
                 THEN Complete([driver EXCEPT !.state = "Confirming",
                                              !.uploaded_locator = locator],
                               "upload_next_challenge_locator_file")
                 ELSE Fail(driver, result.err)
    /\ UNCHANGED task_b

\* Confirming: invoke verify_contribution with the locator just uploaded.
DriverConfirm ==
    /\ driver.state = "Confirming"
    /\ "verify_contribution" \notin Range(driver.issued)
    /\ Call("verify_contribution", ConfirmLocator(driver), << >>)
    /\ driver' = Issue(driver, "verify_contribution")
    /\ UNCHANGED task_b

\* Confirming -> Idle | Failed: the chunk cycle is complete.
DriverConfirmed ==
    /\ driver.state = "Confirming"
    /\ DropLocals
    /\ driver' = IF result.ok THEN DriverIdle ELSE Fail(driver, result.err)
    /\ UNCHANGED task_b

\* The invocations advance only while the iteration has not failed.
Running == driver.state \notin {"Idle", "Failed"}

DriverNext ==
    \/ DriverLock
    \/ DriverLocked
    \/ DriverDownloadChallenge
    \/ DriverDownloadResponse
    \/ DriverChallengeDone
    \/ DriverResponseDone
    \/ DriverVerify
    \/ ExternalVerifyAccepts
    \/ ExternalVerifyRejects
    \/ DriverUpload
    \/ DriverUploaded
    \/ DriverConfirm
    \/ DriverConfirmed
    \/ Running /\ ParseViewKey
    \/ Running /\ Authenticate
    \/ Running /\ AuthenticateFails
    \/ Running /\ Send
    \/ Running /\ SendFails
    \/ Running /\ SendResponds
    \/ Running /\ BodyReadFails
    \/ Running /\ BodyReadCompletes
    \/ Running /\ StepB

DriverSpec == Init /\ [][DriverNext]_vars

Next ==
    \/ lock_chunk
    \/ verify_contribution
    \/ download_response_file
    \/ download_challenge_file
    \/ upload_next_challenge_locator_file
    \/ ParseViewKey
    \/ Authenticate
    \/ AuthenticateFails
    \/ Send
    \/ SendFails
    \/ SendResponds
    \/ BodyReadFails
    \/ BodyReadCompletes
    \/ Return

Spec == Init /\ [][Next]_vars

TypeOK ==
    /\ view_key \in StoredViewKeys
    /\ coordinator_api_url \in CoordinatorUrls
    /\ pc \in {"idle", "parse_key", "sign", "send", "await_send", "await_body", "done"}
    /\ op \in Ops \cup {"none"}
    /\ locator \in Locators
    /\ body_state \in {"unread", "failed", "read"}
    /\ signatures_computed \in 0..1
    /\ requests_sent \in 0..1


\* ---------------------------------------------------------------- claims
\* The path of a request URL: the URL with the base URL removed.
WirePath(url, base) == SubSeq(url, Len(base) + 1, Len(url))

StartsWith(s, prefix) ==
    Len(s) >= Len(prefix) /\ SubSeq(s, 1, Len(prefix)) = prefix

\* The method names of the operation table, as signed and as sent.
TableMethod(o) ==
    IF o \in {"download_response_file", "download_challenge_file"} THEN "GET" ELSE "POST"

WireName(m) == CASE m = "post" -> "POST" [] m = "get" -> "GET" [] OTHER -> "?"

Sent == request # Nil

\* C1: in every request sent, the path the signature is computed over is
\* "/api" followed by exactly the path of the request URL.
C1_SignedPathIsApiPlusSentPath ==
    Sent => signature_path = ApiPrefix \o WirePath(request.url, coordinator_api_url)

ExpectedStatusError ==
    CASE op = "lock_chunk" -> [variant |-> "FailedLock"]
      [] op = "verify_contribution" ->
            [variant |-> "FailedVerification", locator |-> locator]
      [] op = "download_challenge_file" ->
            [variant |-> "FailedChallengeDownload", locator |-> locator]
      [] op = "download_response_file" ->
            [variant |-> "FailedResponseDownload", locator |-> locator]
      [] op = "upload_next_challenge_locator_file" ->
            [variant |-> "FailedChallengeUpload", locator |-> locator]

Responded == send_outcome # Nil /\ send_outcome.ok

NonSuccessStatus == Responded /\ (send_outcome.status < 200 \/ send_outcome.status > 299)

SuccessStatus == Responded /\ send_outcome.status \in 200..299

\* C3: a response with a status outside 200..299, whatever its body, makes
\* the operation return its own error carrying the caller's locator as it
\* was passed, and the body is never read.
C3_NonSuccessStatusGivesOperationError ==
    NonSuccessStatus =>
        /\ pc = "done"
        /\ result = [ok |-> FALSE, err |-> ExpectedStatusError]
        /\ body_state = "unread"

C3_Witness ==
    /\ NonSuccessStatus
    /\ send_outcome.status = 404
    /\ send_outcome.body = LockJsonBody
    /\ op = "download_challenge_file"
    /\ locator = <<".", "/", "c">>
    /\ result = Err([variant |-> "FailedChallengeDownload", locator |-> <<".", "/", "c">>])

\* C4: when sending fails in the transport, the operation returns
\* FailedRequest with the path template instantiated with the caller's
\* locator and the configured coordinator URL, never a status or decode error.
C4_TransportFailureGivesFailedRequest ==
    (send_outcome # Nil /\ ~send_outcome.ok) =>
        /\ pc = "done"
        /\ result = [ok  |-> FALSE,
                     err |-> [variant  |-> "FailedRequest",
                              path     |-> PathTemplate(op) \o locator,
                              base_url |-> coordinator_api_url]]
        /\ body_state = "unread"

C4_Witness ==
    /\ send_outcome # Nil
    /\ ~send_outcome.ok
    /\ op = "upload_next_challenge_locator_file"
    /\ locator = <<".", "/", "c">>
    /\ result.err.variant = "FailedRequest"
    /\ result.err.path = VerificationPrefix \o <<".", "/", "c">>

\* C5: a transport failure while the body of a success response is read
\* also makes the operation return FailedRequest{path, base_url}.
C5_BodyReadFailureGivesFailedRequest ==
    body_state = "failed" =>
        result = [ok  |-> FALSE,
                  err |-> [variant  |-> "FailedRequest",
                           path     |-> PathTemplate(op) \o locator,
                           base_url |-> coordinator_api_url]]

\* C6: lock_chunk on a success status never returns FailedLock or
\* FailedRequest; a body that is not a full LockResponse yields a decode
\* error, and an Ok result carries every field of the LockResponse.
C6_LockDecodeErrorIsDistinct ==
    (op = "lock_chunk" /\ pc = "done" /\ SuccessStatus) =>
        /\ ~result.ok => result.err.variant \notin {"FailedLock", "FailedRequest"}
        /\ (body_state = "read" /\ send_outcome.body # LockJsonBody) =>
               (~result.ok /\ result.err.variant \in {"Reqwest", "SerdeJson"})
        /\ result.ok =>
               /\ DOMAIN result.val = LockResponseFields
               /\ send_outcome.body = LockJsonBody

C6_Witness ==
    /\ op = "lock_chunk"
    /\ pc = "done"
    /\ SuccessStatus
    /\ body_state = "read"
    /\ send_outcome.body = PartialLockJsonBody
    /\ ~result.ok
    /\ result.err.variant = "SerdeJson"

\* C7: with a stored view key that does not parse, the operation fails with
\* the invalid-key error, computes no signature and sends no request; in
\* every execution the key is parsed before signing and signing is done
\* before sending.
C7_KeyParsedBeforeSigningBeforeSending ==
    /\ view_key \notin ValidViewKeys =>
           /\ signatures_computed = 0
           /\ authentication = Nil
           /\ requests_sent = 0
           /\ request = Nil
           /\ send_outcome = Nil
           /\ pc = "done" => result = [ok |-> FALSE, err |-> [variant |-> "InvalidKey"]]
    /\ authentication # Nil => parsed_key # Nil
    /\ request # Nil => authentication # Nil
    /\ signatures_computed > 0 => parsed_key # Nil
    /\ requests_sent > 0 => signatures_computed > 0

C7_Witness ==
    /\ view_key \notin ValidViewKeys
    /\ op = "upload_next_challenge_locator_file"
    /\ pc = "done"
    /\ result = Err([variant |-> "InvalidKey"])
    /\ request = Nil

\* C8: the method bound into the signature of a request is the method the
\* request is sent with, POST or GET as the operation table says, and the
\* signature is the one computed in this invocation from its method and path.
C8_SignedMethodIsWireMethod ==
    Sent =>
        /\ request.method = TableMethod(op)
        /\ WireName(authentication.method) = request.method
        /\ signatures_computed = 1
        /\ authentication.path = signature_path
        /\ signature_path = ApiPrefix \o replace(PathTemplate(op) \o locator, DotSlash, << >>)
        /\ request.headers.Authorization[3] = authentication.method
        /\ request.headers.Authorization[4] = signature_path

C8_Witness ==
    /\ Sent
    /\ op = "download_response_file"
    /\ request.method = "GET"
    /\ authentication.method = "get"
    /\ locator = <<"c", "/", "c">>

\* C9: every request sent carries an Authorization header that is the string
\* form of the signature computed in the same invocation; only the upload
\* attaches a body, the caller's bytes, and the octet-stream Content-Type.
C9_AuthorizationHeaderAndBody ==
    Sent =>
        /\ request.headers.Authorization
               = <<"signature", authentication.signer, authentication.method,
                   authentication.path>>
        /\ authentication.signer = view_key
        /\ IF op = "upload_next_challenge_locator_file"
           THEN /\ request.body = [present |-> TRUE, bytes |-> file_bytes]
                /\ DOMAIN request.headers = {"Authorization", "ContentType"}
                /\ request.headers.ContentType = "application/octet-stream"
           ELSE /\ request.body = [present |-> FALSE]
                /\ DOMAIN request.headers = {"Authorization"}

C9_Witness ==
    /\ Sent
    /\ op = "upload_next_challenge_locator_file"
    /\ request.body = [present |-> TRUE, bytes |-> <<2, 3>>]
    /\ request.headers.ContentType = "application/octet-stream"

\* C10: the "./" stripping applied to a path before signing is idempotent:
\* stripping the stripped path changes nothing.
C10_CanonicalizationIdempotent ==
    (op \in LocatorOps /\ signature_path # << >>) =>
        LET canonical == WirePath(signature_path, ApiPrefix)
        IN  /\ canonical = replace(path, DotSlash, << >>)
            /\ replace(canonical, DotSlash, << >>) = canonical

\* The LockResponse the coordinator serialized into LockJsonBody.
CoordinatorLockResponse ==
    [chunk_id          |-> <<"3">>,
     challenge_locator |-> <<".", "/", "c">>,
     response_locator  |-> <<".", "/", "c", "c">>]

IsAscii(body) == \A i \in 1..Len(body) : body[i] < 128

C18_OneRequestOneOutcome ==
    /\ [](/\ requests_sent <= 1
          /\ pc = "done" <=> result # Nil
          /\ (send_outcome # Nil /\ ~send_outcome.ok) => (pc = "done" /\ requests_sent = 1)
          /\ NonSuccessStatus => (pc = "done" /\ requests_sent = 1))
    /\ [][/\ result # Nil => (pc' = "idle" /\ result' = Nil)
          /\ requests_sent > 0 => (requests_sent' = requests_sent \/ pc' = "idle")
          /\ (request # Nil /\ pc' # "idle") => request' = request]_vars

C18_Witness ==
    /\ pc = "done"
    /\ op = "lock_chunk"
    /\ requests_sent = 1
    /\ send_outcome = [ok |-> FALSE]
    /\ result.err.variant = "FailedRequest"

\* The headers of a request other than Authorization.
OtherHeaders(req) ==
    [h \in DOMAIN req.headers \ {"Authorization"} |-> req.headers[h]]

\* C15: a run of the same operation with any other valid view key, against
\* the same coordinator behaviour, has the same request URL, method, body and
\* other headers and returns the same result; only Authorization may differ.
C15_ViewKeyNotObservable ==
    (pc = "done" /\ view_key \in ValidViewKeys) =>
        \A other_key \in ValidViewKeys :
            LET other == RunAlone(op, locator, file_bytes, other_key,
                                  coordinator_api_url, ObservedAnswer(TaskA))
            IN  /\ other.result = result
                /\ (other.request = Nil) <=> (request = Nil)
                /\ request # Nil =>
                       /\ other.request.url = request.url
                       /\ other.request.method = request.method
                       /\ other.request.body = request.body
                       /\ OtherHeaders(other.request) = OtherHeaders(request)

C15_Witness ==
    /\ pc = "done"
    /\ view_key = "AViewKey1"
    /\ op = "verify_contribution"
    /\ locator = <<".", "/", "c">>
    /\ request # Nil
    /\ result.ok
    /\ RunAlone(op, locator, file_bytes, "AViewKey2", coordinator_api_url,
                ObservedAnswer(TaskA)).request.headers.Authorization
           # request.headers.Authorization

\* C16: whenever the wire request of another locator-bearing invocation
\* differs from the one sent in method or in sent path, the (method,
\* signature path) pair it signs differs as well.
C16_SignaturesBoundOneToOne ==
    (Sent /\ op \in LocatorOps) =>
        \A other_op \in LocatorOps, other_locator \in Locators :
            LET other_path == PathOf(other_op, other_locator)
            IN  <<ClientMethod(other_op), other_path>>
                    # <<request.method, WirePath(request.url, coordinator_api_url)>>
                => <<MethodOf(other_op), SignaturePathOf(other_op, other_path)>>
                       # <<authentication.method, signature_path>>

\* C17: with the two downloads in flight together, under every
\* interleaving each returns what it returns when run alone against the
\* answers it was given, and no step changes the view key or the
\* coordinator URL of the Verifier.
C17_ConcurrentDownloadsIndependent ==
    /\ [](/\ pc = "done" =>
                result = RunAlone(op, locator, file_bytes, view_key,
                                  coordinator_api_url, ObservedAnswer(TaskA)).result
          /\ task_b.pc = "done" =>
                task_b.result = RunAlone(task_b.op, task_b.locator, task_b.file_bytes,
                                         view_key, coordinator_api_url,
                                         ObservedAnswer(task_b)).result)
    /\ [][view_key' = view_key /\ coordinator_api_url' = coordinator_api_url]_vars

C17_Witness ==
    /\ op = "download_challenge_file"
    /\ task_b.op = "download_response_file"
    /\ pc = "done"
    /\ task_b.pc = "done"
    /\ locator # task_b.locator
    /\ result.ok
    /\ ~task_b.result.ok
    /\ task_b.result.err = [variant |-> "FailedResponseDownload", locator |-> task_b.locator]

Downloads == {"download_challenge_file", "download_response_file"}

\* The stage of the iteration an operation belongs to.
Stage(o) ==
    CASE o = "lock_chunk"                         -> 1
      [] o \in Downloads                          -> 2
      [] o = "upload_next_challenge_locator_file" -> 3
      [] o = "verify_contribution"                -> 4

\* C12: once the external verification has returned false the iteration is
\* Failed, has issued neither the upload nor verify_contribution, and
\* nothing further happens in it: no retry and no request.
C12_RejectedVerificationEndsIteration ==
    /\ [](driver.verdict = "rejected" =>
             /\ driver.state = "Failed"
             /\ "upload_next_challenge_locator_file" \notin Range(driver.issued)
             /\ "verify_contribution" \notin Range(driver.issued)
             /\ pc = "idle"
             /\ task_b.pc = "idle")
    /\ [][driver.verdict = "rejected" =>
             (driver' = driver /\ pc' = pc /\ task_b' = task_b
                 /\ requests_sent' = requests_sent)]_vars

C12_Witness ==
    /\ driver.verdict = "rejected"
    /\ driver.state = "Failed"
    /\ driver.challenge # Nil
    /\ driver.response # Nil
    /\ driver.issued[1] = "lock_chunk"

\* C13: in one iteration the operations are issued in the order lock_chunk,
\* the two downloads (either order), upload, verify_contribution, each only
\* after the stage before it succeeded; the verification runs only after
\* both downloads completed; verify_contribution gets the uploaded locator.
C13_StagesInOrder ==
    LET issued == driver.issued
        done   == Range(driver.completed)
    IN  /\ Cardinality(Range(issued)) = Len(issued)
        /\ \A i, j \in DOMAIN issued : i < j => Stage(issued[i]) <= Stage(issued[j])
        /\ issued # << >> => issued[1] = "lock_chunk"
        /\ Range(issued) \cap Downloads # {} => "lock_chunk" \in done
        /\ (driver.state = "Verifying" \/ driver.verdict # "none") =>
               /\ Downloads \subseteq done
               /\ driver.challenge # Nil /\ driver.challenge.ok
               /\ driver.response # Nil /\ driver.response.ok
               /\ pc = "idle" \/ Stage(op) > 2
               /\ task_b.pc = "idle"
        /\ "upload_next_challenge_locator_file" \in Range(issued) =>
               (driver.verdict = "accepted" /\ Downloads \subseteq done)
        /\ "verify_contribution" \in Range(issued) =>
               "upload_next_challenge_locator_file" \in done
        /\ op = "upload_next_challenge_locator_file" =>
               (locator = driver.next_locator /\ file_bytes = driver.next_bytes)
        /\ op = "verify_contribution" => locator = driver.uploaded_locator
        /\ op # "none" => op \in Range(issued)
        /\ task_b.op # "none" => task_b.op \in Range(issued)

C13_Witness ==
    /\ driver.state = "Confirming"
    /\ op = "verify_contribution"
    /\ pc = "done"
    /\ result.ok
    /\ locator = <<".", "/", "c">>
    /\ driver.issued[2] = "download_response_file"
    /\ Len(driver.issued) = 5

\* C14: a FailedRequest returned to the driver by any operation moves the
\* iteration to Failed with that error, and from then on the iteration
\* issues no request and runs no operation.
C14_FailedRequestIsTerminal ==
    /\ [](driver.error # Nil => driver.state = "Failed")
    /\ [][/\ (pc = "done" /\ pc' # "done" /\ ~result.ok
                  /\ result.err.variant = "FailedRequest") =>
                 (driver'.state = "Failed" /\ driver'.error = result.err)
          /\ (task_b.pc = "done" /\ task_b'.pc # "done" /\ ~task_b.result.ok
                  /\ task_b.result.err.variant = "FailedRequest") =>
                 (driver'.state = "Failed" /\ driver'.error = task_b.result.err)
          /\ (driver.state = "Failed" /\ driver.error.variant = "FailedRequest") =>
                 (driver' = driver /\ pc' = pc /\ request' = request
                     /\ requests_sent' = requests_sent /\ task_b' = task_b)]_vars

C14_Witness ==
    /\ driver.state = "Failed"
    /\ driver.error.variant = "FailedRequest"
    /\ driver.error.path = VerificationPrefix \o <<".", "/", "c">>
    /\ Len(driver.issued) = 4

====
